---- MODULE Spec2Model ----
(***************************************************************************)
(* Verification model of the OpenFrame additions to the Fleet orbit agent: *)
(*   - the `cleanup` subcommand, standard revision                         *)
(*     (orbit/cmd/orbit/openframe_cleanup.go) and OpenFrame-mode revision, *)
(*   - the `uuid` subcommand (orbit/cmd/orbit/openframe_uuid.go),          *)
(*   - the container entrypoint scripts (openframe/entrypoint.sh and its   *)
(*     later revisions).                                                   *)
(*                                                                         *)
(* Representation of text.  A file name is the sequence of its             *)
(* dot-separated segments ("orbit.stdout.log" is <<"orbit","stdout",       *)
(* "log">>), a path is the sequence of its names, so that                  *)
(* strings.HasSuffix(path, ".old") is computed from the spelling and       *)
(* filepath.Join is Append.  A command is its argv.                        *)
(***************************************************************************)
EXTENDS Integers, Naturals, Sequences, FiniteSets, TLC

VARIABLES
    \* ---- machine the cleanup command runs on
    goos,        \* runtime.GOOS
    admin,       \* TRUE iff the process has root/administrator privileges
    rootFlag,    \* value of --root-dir (<<>> when not given)
    fs,          \* filesystem: [existing paths -> "file" | "dir"]
    fs0,         \* filesystem when the command was invoked
    locked,      \* paths whose removal the operating system refuses
    sys,         \* [running: processes, registered: service registrations]
    sys0,        \* sys when the command was invoked
    \* ---- one invocation of `orbit cleanup`
    variant,     \* "none" | "standard" | "openframe": which revision runs
    flags,       \* the parsed command line
    cpc,         \* position inside cleanupAction
    results,     \* the cleanupResults accumulator
    cachePaths,  \* what getCachePaths returned in cleanCacheFiles
    walked,      \* history: the filesystem as getCachePaths walked it
    attempts,    \* history: one entry per removePathIfExists call
    cmds,        \* history: argv of every subprocess executed, [argv, err]
    out,         \* lines printed on standard output
    response,    \* what fmt.Scanln stored at the confirmation prompt
    logged,      \* messages written through the logger
    exit,        \* "none" | "ok" | "error": what cleanupAction returned
    \* ---- one invocation of `orbit uuid`
    upc,         \* position inside uuidAction
    uflags,      \* the parsed command line
    ustat,       \* what os.Stat(osquerydPath) answered
    proc,        \* the osqueryd run: [mkdir, started, code, rows, stdout]
    scratch,     \* TRUE iff the temporary database directory exists
    hostUUID,    \* the string getHostUUID returned
    uerr,        \* the error uuidAction returned ("" for nil)
    uout,        \* lines printed on standard output
    \* ---- one run of a container entrypoint script
    bscript,     \* which revision of the entrypoint runs
    bpc,         \* position inside the script
    benv,        \* environment: [mysql, redis, autoInit]
    mysqlUp,     \* TRUE iff MySQL accepts connections
    redisUp,     \* TRUE iff Redis accepts connections
    sh,          \* shell variables: [MYSQL_HOST, MYSQL_PORT, REDIS_HOST, REDIS_PORT]
    probes,      \* history: the nc -z probes made, [host, port, ok]
    prepared,    \* "no" | "ok" | "failed": outcome of `fleet prepare db`
    server,      \* "none" | "running" | "exited"
    serverCode,  \* exit status of the server once it has exited
    attempts_,   \* the attempts counter of wait_for_fleet
    initRun,     \* "no" | "ok" | "failed": outcome of init-fleet.sh
    tokenFile,   \* TRUE iff /etc/fleet/api_token.txt exists
    bexit        \* exit status of the script, -1 while it runs

envVars == <<goos, admin, rootFlag, fs0, locked, sys0>>
cleanVars == <<fs, sys, variant, flags, cpc, results, cachePaths, walked, attempts, cmds, out,
               response, logged, exit>>
uuidVars == <<upc, uflags, ustat, proc, scratch, hostUUID, uerr, uout>>
bootVars == <<bscript, bpc, benv, mysqlUp, redisUp, sh, probes, prepared, server, serverCode,
              attempts_, initRun, tokenFile, bexit>>
vars == <<envVars, cleanVars, uuidVars, bootVars>>

\* what the cleanup subcommand never touches
frame == <<envVars, uuidVars, bootVars>>

-----------------------------------------------------------------------------
(* Bounds of the model *)

\* deepest directory level (below the root) at which a `.old` file is placed
MaxDepth == 2

\* most rows the osqueryd query prints
MaxRows == 2

\* most failed TCP probes of one dependency that are followed
MaxProbeFails == 2

-----------------------------------------------------------------------------
(* Paths *)

Join(dir, name) == Append(dir, name)

IsPrefix(p, q) == Len(p) <= Len(q) /\ SubSeq(q, 1, Len(p)) = p

\* strings.HasSuffix(path, "." + ext)
HasSuffix(path, ext) ==
    /\ Len(path) > 0
    /\ LET n == path[Len(path)] IN Len(n) >= 2 /\ n[Len(n)] = ext

RECURSIVE Concat(_)
Concat(ss) == IF ss = <<>> THEN <<>> ELSE Head(ss) \o Concat(Tail(ss))

Range(s) == {s[i] : i \in 1..Len(s)}

Occurrences(s, x) == Cardinality({i \in 1..Len(s) : s[i] = x})

\* os.Getenv for the directories the code asks for
Getenv(name) == << <<name>> >>

GOOSes == {"darwin", "linux", "windows", "freebsd"}

getDefaultRootDir(os) ==
    IF os = "windows" THEN Join(Getenv("ProgramFiles"), <<"Orbit">>)
    ELSE << <<"opt">>, <<"orbit">> >>

TmpX == << <<"tmp">>, <<"x">> >>

\* rootDir := c.String("root-dir"); if rootDir == "" { rootDir = getDefaultRootDir() }
RootDir(os, flag) == IF flag = <<>> THEN getDefaultRootDir(os) ELSE flag

\* names of github.com/fleetdm/fleet/v4/orbit/pkg/constant
OrbitNodeKeyFileName == <<"secret-orbit-node-key", "txt">>
DesktopTokenFileName == <<"identifier">>
OsqueryEnrollSecretFileName == <<"secret", "txt">>
ServerOverridesFileName == <<"server-overrides", "json">>

VarLogOrbit == << <<"var">>, <<"log">>, <<"orbit">> >>

WindowsLogs ==
    Getenv("SystemRoot") \o << <<"system32">>, <<"config">>, <<"systemprofile">>,
                               <<"AppData">>, <<"Local">>, <<"FleetDM">>, <<"Orbit">>,
                               <<"Logs">> >>

getLogPaths(os, rootDir) ==
    << Join(rootDir, <<"osquery_log">>),
       Join(rootDir, <<"orbit", "stderr", "log">>),
       Join(rootDir, <<"orbit", "stdout", "log">>) >>
    \o (CASE os \in {"darwin", "linux"} -> <<VarLogOrbit>>
          [] os = "windows" -> <<WindowsLogs>>
          [] OTHER -> <<>>)

getSecretPaths(rootDir) ==
    << Join(rootDir, OrbitNodeKeyFileName),
       Join(rootDir, DesktopTokenFileName),
       Join(rootDir, OsqueryEnrollSecretFileName),
       Join(rootDir, ServerOverridesFileName),
       Join(rootDir, <<"osquery", "db">>),
       Join(rootDir, <<"osquery", "db-wal">>),
       Join(rootDir, <<"osquery", "db-shm">>) >>

FixedCachePaths(rootDir) ==
    << Join(rootDir, <<"shell">>),
       Join(rootDir, <<"update-metadata">>),
       Join(rootDir, <<"updates", "json">>) >>

-----------------------------------------------------------------------------
(* filepath.Walk: pre-order, children in lexical order of their names *)

\* the names that occur in the modelled trees, in lexical (byte) order
NameOrder ==
    << <<"backup", "old">>, <<"bin">>, <<"data">>, <<"keep">>,
       <<"orbit", "old">>, <<"orbit", "stdout", "log">>, <<"osquery", "db">>,
       <<"osquery_log">>, OrbitNodeKeyFileName, <<"shell">>,
       <<"updates", "json">>, <<"x", "old">> >>

Rank(n) == IF \E i \in 1..Len(NameOrder) : NameOrder[i] = n
           THEN CHOOSE i \in 1..Len(NameOrder) : NameOrder[i] = n
           ELSE Len(NameOrder) + 1

Children(p, f) == {q \in DOMAIN f : Len(q) = Len(p) + 1 /\ IsPrefix(p, q)}

RECURSIVE SortByName(_)
SortByName(ps) ==
    IF ps = {} THEN <<>>
    ELSE LET m == CHOOSE q \in ps :
                      \A r \in ps : Rank(q[Len(q)]) <= Rank(r[Len(r)])
         IN <<m>> \o SortByName(ps \ {m})

RECURSIVE Walk(_, _)
Walk(p, f) ==
    IF p \notin DOMAIN f THEN <<>>
    ELSE <<p>> \o (IF f[p] = "dir"
                   THEN LET kids == SortByName(Children(p, f))
                        IN Concat([i \in 1..Len(kids) |-> Walk(kids[i], f)])
                   ELSE <<>>)

\* the walk callback of getCachePaths: keeps every visited path that ends in ".old"
WalkOld(rootDir, f) ==
    LET IsOld(p) == HasSuffix(p, "old") IN SelectSeq(Walk(rootDir, f), IsOld)

getCachePaths(rootDir, f) == FixedCachePaths(rootDir) \o WalkOld(rootDir, f)

-----------------------------------------------------------------------------
(* The filesystem and os.RemoveAll *)

Restrict(f, D) == [q \in D |-> f[q]]

Subtree(p, f) == {q \in DOMAIN f : IsPrefix(p, q)}

\* the paths of the subtree that cannot go because they are, or contain, a path
\* the operating system refuses to remove
Stuck(p, f, lk) == {q \in Subtree(p, f) : \E l \in lk \cap Subtree(p, f) : IsPrefix(q, l)}

\* os.RemoveAll(path): removes path and everything below it that it can; reports
\* an error iff something had to stay.  A path that does not exist is no error.
RemoveAll(p, f, lk) ==
    [fs  |-> Restrict(f, DOMAIN f \ (Subtree(p, f) \ Stuck(p, f, lk))),
     err |-> Stuck(p, f, lk) # {}]

-----------------------------------------------------------------------------
(* Services, processes and the commands that act on them *)

Procs == {"orbit", "fleet-desktop", "osqueryd"}

LaunchdPlist == << <<"Library">>, <<"LaunchDaemons">>, <<"com", "fleetdm", "orbit", "plist">> >>
LaunchdPlistArg == "/Library/LaunchDaemons/com.fleetdm.orbit.plist"
SystemdUnit == << <<"usr">>, <<"lib">>, <<"systemd">>, <<"system">>, <<"orbit", "service">> >>
EtcDefaultOrbit == << <<"etc">>, <<"default">>, <<"orbit">> >>
UsrLocalBinOrbit == << <<"usr">>, <<"local">>, <<"bin">>, <<"orbit">> >>

RegUninstall == "Get-ChildItem Uninstall | Where-Object DisplayName -eq 'Fleet osquery' | Remove-Item -Recurse -Force"
RegService == "Remove-Item HKLM:\\SYSTEM\\CurrentControlSet\\Services\\Fleet osquery -Recurse -Force"

\* what a machine with orbit installed has registered, per platform
Registered(os) ==
    CASE os = "darwin"  -> {"launchd:com.fleetdm.orbit", "pkg:com.fleetdm.orbit.base.pkg"}
      [] os = "linux"   -> {"unit:orbit.service", "enabled:orbit.service"}
      [] os = "windows" -> {"service:Fleet osquery", "reg:uninstall", "reg:service"}
      [] OTHER -> {}

\* the processes a command terminates when it succeeds
Kills(argv) ==
    CASE argv = <<"launchctl", "stop", "com.fleetdm.orbit">> -> {"orbit"}
      [] argv = <<"launchctl", "unload", LaunchdPlistArg>> -> {"orbit"}
      [] argv = <<"systemctl", "stop", "orbit.service">> -> {"orbit"}
      [] argv = <<"net", "stop", "Fleet osquery">> -> {"orbit"}
      [] argv = <<"pkill", "fleet-desktop">> -> {"fleet-desktop"}
      [] argv = <<"pkill", "-f", "fleet-desktop">> -> {"fleet-desktop"}
      [] argv = <<"taskkill", "/F", "/IM", "fleet-desktop.exe">> -> {"fleet-desktop"}
      [] argv = <<"pkill", "osqueryd">> -> {"osqueryd"}
      [] argv = <<"taskkill", "/F", "/IM", "osqueryd.exe">> -> {"osqueryd"}
      [] OTHER -> {}

\* the registrations a command deletes when it succeeds
Unregisters(argv) ==
    CASE argv = <<"launchctl", "unload", LaunchdPlistArg>> -> {"launchd:com.fleetdm.orbit"}
      [] argv = <<"systemctl", "disable", "orbit.service">> -> {"enabled:orbit.service"}
      [] argv = <<"pkgutil", "--forget", "com.fleetdm.orbit.base.pkg">> -> {"pkg:com.fleetdm.orbit.base.pkg"}
      [] argv = <<"powershell", "-Command", RegUninstall>> -> {"reg:uninstall"}
      [] argv = <<"powershell", "-Command", RegService>> -> {"reg:service"}
      [] OTHER -> {}

\* a command that has nothing to act on exits non-zero (the target is not running,
\* not loaded, not registered), and so does one that lacks the privileges to act
\* on a system service; `net session` fails without administrator rights
ExecFails(argv, s, isAdmin) ==
    CASE argv = <<"net", "session">> -> ~isAdmin
      [] argv = <<"systemctl", "stop", "orbit.service">> ->
            ~isAdmin \/ "unit:orbit.service" \notin s.registered
      [] OTHER -> \/ ~isAdmin
                  \/ /\ argv # <<"systemctl", "daemon-reload">>
                     /\ Kills(argv) \cap s.running = {}
                     /\ Unregisters(argv) \cap s.registered = {}

\* exec.Command(argv...).Run()
Exec(argv, s, isAdmin) ==
    [sys |-> IF isAdmin
             THEN [running |-> s.running \ Kills(argv),
                   registered |-> s.registered \ Unregisters(argv)]
             ELSE s,
     err |-> ExecFails(argv, s, isAdmin)]

-----------------------------------------------------------------------------
(* The run state threaded through the helpers of cleanupAction:               *)
(*   [fs, sys, results, attempts, cmds, out, logged]                          *)

NoResults == [filesRemoved |-> <<>>, servicesRemoved |-> <<>>,
              processesKilled |-> <<>>, errors |-> <<>>]

RunIgnoringError_Recording(argv, st) ==
    LET r == Exec(argv, st.sys, admin)
        s1 == [st EXCEPT !.sys = r.sys, !.cmds = Append(@, [argv |-> argv, err |-> r.err])]
    IN IF r.err THEN [s1 EXCEPT !.results.errors = Append(@, [op |-> "Run", path |-> <<>>])]
       ELSE s1

\* c := exec.Command(...); _ = c.Run()
RunIgnoringError(argv, st) ==
    LET r == Exec(argv, st.sys, admin)
    IN [st EXCEPT !.sys = r.sys, !.cmds = Append(@, [argv |-> argv, err |-> r.err])]

Println(line, st) == [st EXCEPT !.out = Append(@, line)]

\* history of removePathIfExists calls: the path, whether it existed when the
\* call started and whether it exists when the call returns
Recorded(path, before, after) ==
    [after EXCEPT !.attempts = Append(@, [path   |-> path,
                                          before |-> path \in DOMAIN before.fs,
                                          after  |-> path \in DOMAIN after.fs])]

-----------------------------------------------------------------------------
(* Standard revision: orbit/cmd/orbit/openframe_cleanup.go *)

\* hasAdminPrivileges: `net session` on Windows, euid 0 elsewhere
hasAdminPrivileges(os, isAdmin) ==
    IF os = "windows" THEN ~Exec(<<"net", "session">>, sys, isAdmin).err ELSE isAdmin

removePathIfExists_IgnoreDryRun(path, dryRun, st) ==
    IF path \notin DOMAIN st.fs THEN st
    ELSE LET r  == RemoveAll(path, st.fs, locked)
             s1 == [Println([k |-> "Removing", v |-> path], st) EXCEPT !.fs = r.fs]
         IN IF r.err
            THEN [s1 EXCEPT !.results.errors = Append(@, [op |-> "RemoveAll", path |-> path])]
            ELSE [s1 EXCEPT !.results.filesRemoved = Append(@, path)]

removePathIfExists_ErrorAsRemoved(path, dryRun, st) ==
    IF path \notin DOMAIN st.fs THEN st
    ELSE IF dryRun
    THEN [Println([k |-> "Would remove", v |-> path], st)
            EXCEPT !.results.filesRemoved = Append(@, path)]
    ELSE LET r  == RemoveAll(path, st.fs, locked)
             s1 == [Println([k |-> "Removing", v |-> path], st) EXCEPT !.fs = r.fs]
         IN [s1 EXCEPT !.results.filesRemoved = Append(@, path)]

removePathIfExists(path, dryRun, st) ==
    IF path \notin DOMAIN st.fs THEN st
    ELSE IF dryRun
    THEN [Println([k |-> "Would remove", v |-> path], st)
            EXCEPT !.results.filesRemoved = Append(@, path)]
    ELSE LET r  == RemoveAll(path, st.fs, locked)
             s1 == [Println([k |-> "Removing", v |-> path], st) EXCEPT !.fs = r.fs]
         IN IF r.err
            THEN [s1 EXCEPT !.results.errors = Append(@, [op |-> "RemoveAll", path |-> path])]
            ELSE [s1 EXCEPT !.results.filesRemoved = Append(@, path)]

\* for _, path := range paths { removePathIfExists(path, dryRun, results) }
RECURSIVE removeEach(_, _, _)
removeEach(paths, dryRun, st) ==
    IF paths = <<>> THEN st
    ELSE removeEach(Tail(paths), dryRun,
                    Recorded(Head(paths), st, removePathIfExists(Head(paths), dryRun, st)))

cleanLogFiles(rootDir, dryRun, st) ==
    removeEach(getLogPaths(goos, rootDir), dryRun,
               Println([k |-> "Cleaning", v |-> "log files"], st))

cleanCacheFiles(rootDir, dryRun, st) ==
    removeEach(getCachePaths(rootDir, st.fs), dryRun,
               Println([k |-> "Cleaning", v |-> "cache files"], st))

cleanSecretFiles(rootDir, dryRun, st) ==
    removeEach(getSecretPaths(rootDir), dryRun,
               Println([k |-> "Cleaning", v |-> "secrets and enrollment data"], st))

\* for _, cmd := range commands { if dryRun { "Would run" } else { _ = c.Run() } }
RECURSIVE runEach(_, _, _)
runEach(commands, dryRun, st) ==
    IF commands = <<>> THEN st
    ELSE runEach(Tail(commands), dryRun,
                 IF dryRun THEN Println([k |-> "Would run", v |-> Head(commands)], st)
                 ELSE RunIgnoringError(Head(commands), st))

ServiceRemoved(name, st) == [st EXCEPT !.results.servicesRemoved = Append(@, name)]

stopOrbitServiceMacOS(dryRun, st) ==
    ServiceRemoved("com.fleetdm.orbit",
        runEach(<< <<"launchctl", "stop", "com.fleetdm.orbit">>,
                   <<"launchctl", "unload", LaunchdPlistArg>>,
                   <<"pkill", "fleet-desktop">> >>, dryRun, st))

stopOrbitServiceLinux_AlsoOsqueryd(dryRun, st) ==
    ServiceRemoved("orbit.service",
        runEach(<< <<"systemctl", "stop", "orbit.service">>,
                   <<"systemctl", "disable", "orbit.service">>,
                   <<"pkill", "-f", "fleet-desktop">>,
                   <<"pkill", "osqueryd">> >>, dryRun, st))

stopOrbitServiceLinux(dryRun, st) ==
    ServiceRemoved("orbit.service",
        runEach(<< <<"systemctl", "stop", "orbit.service">>,
                   <<"systemctl", "disable", "orbit.service">>,
                   <<"pkill", "-f", "fleet-desktop">> >>, dryRun, st))

stopOrbitServiceWindows(dryRun, st) ==
    ServiceRemoved("Fleet osquery",
        IF dryRun
        THEN Println([k |-> "Would run", v |-> <<"Stop-Process", "-Name", "fleet-desktop">>],
               Println([k |-> "Would run", v |-> <<"Stop-Service", "-Name", "'Fleet osquery'">>], st))
        ELSE RunIgnoringError(<<"taskkill", "/F", "/IM", "fleet-desktop.exe">>,
               RunIgnoringError(<<"net", "stop", "Fleet osquery">>, st)))

\* returns [st, err]: err is the "unsupported platform" error
stopOrbitService(os, dryRun, st) ==
    LET s1 == Println([k |-> "Stopping", v |-> "orbit service and fleet-desktop"], st)
    IN CASE os = "darwin"  -> [st |-> stopOrbitServiceMacOS(dryRun, s1), err |-> FALSE]
         [] os = "linux"   -> [st |-> stopOrbitServiceLinux(dryRun, s1), err |-> FALSE]
         [] os = "windows" -> [st |-> stopOrbitServiceWindows(dryRun, s1), err |-> FALSE]
         [] OTHER          -> [st |-> s1, err |-> TRUE]

cleanServiceFiles(os, dryRun, st) ==
    LET s1 == Println([k |-> "Cleaning", v |-> "service configuration files"], st)
    IN CASE os = "darwin" ->
              LET s2 == removeEach(<<LaunchdPlist, UsrLocalBinOrbit>>, dryRun, s1)
                  forget == <<"pkgutil", "--forget", "com.fleetdm.orbit.base.pkg">>
              IN IF dryRun THEN Println([k |-> "Would run", v |-> forget], s2)
                 ELSE RunIgnoringError(forget, s2)
         [] os = "linux" ->
              LET s2 == removeEach(<<SystemdUnit, EtcDefaultOrbit, UsrLocalBinOrbit>>, dryRun, s1)
              IN IF ~dryRun THEN RunIgnoringError(<<"systemctl", "daemon-reload">>, s2)
                 ELSE s2
         [] OTHER -> s1

cleanWindowsRegistry(os, dryRun, st) ==
    IF os # "windows" THEN st
    ELSE LET s1 == Println([k |-> "Cleaning", v |-> "Windows registry"], st)
             step(regCmd, s) ==
                 IF dryRun THEN Println([k |-> "Would run PowerShell", v |-> regCmd], s)
                 ELSE RunIgnoringError(<<"powershell", "-Command", regCmd>>, s)
         IN step(RegService, step(RegUninstall, s1))

printResults(dryRun, st) ==
    LET r  == st.results
        s1 == IF dryRun
              THEN Println([k |-> "Would remove services", v |-> Len(r.servicesRemoved)],
                     Println([k |-> "Would clean", v |-> Len(r.filesRemoved)], st))
              ELSE Println([k |-> "Removed services", v |-> Len(r.servicesRemoved)],
                     Println([k |-> "Cleaned", v |-> Len(r.filesRemoved)], st))
        s2 == IF Len(r.errors) > 0
              THEN Println([k |-> "errors occurred", v |-> Len(r.errors)], s1) ELSE s1
    IN IF ~dryRun /\ Len(r.errors) = 0
       THEN Println([k |-> "Cleanup completed successfully", v |-> 0], s2) ELSE s2

\* if len(results.errors) > 0 { return fmt.Errorf(...) }; return nil
ReturnValue(res) == IF Len(res.errors) > 0 THEN "error" ELSE "ok"

-----------------------------------------------------------------------------
(* OpenFrame-mode revision of the cleanup subcommand *)

ofRemovePathIfExists(path, st) ==
    IF path \notin DOMAIN st.fs THEN st
    ELSE LET r  == RemoveAll(path, st.fs, locked)
             s1 == [Println([k |-> "Removing", v |-> path], st) EXCEPT !.fs = r.fs]
         IN IF r.err
            THEN [s1 EXCEPT !.results.errors = Append(@, [op |-> "RemoveAll", path |-> path])]
            ELSE [s1 EXCEPT !.results.filesRemoved = Append(@, path)]

RECURSIVE ofRemoveEach(_, _)
ofRemoveEach(paths, st) ==
    IF paths = <<>> THEN st
    ELSE ofRemoveEach(Tail(paths),
                      Recorded(Head(paths), st, ofRemovePathIfExists(Head(paths), st)))

ofCleanLogFiles(rootDir, st) ==
    ofRemoveEach(getLogPaths(goos, rootDir), Println([k |-> "Cleaning", v |-> "log files"], st))

ofCleanCacheFiles(rootDir, st) ==
    ofRemoveEach(getCachePaths(rootDir, st.fs),
                 Println([k |-> "Cleaning", v |-> "cache files"], st))

ofCleanSecretFiles(rootDir, st) ==
    ofRemoveEach(getSecretPaths(rootDir),
                 Println([k |-> "Cleaning", v |-> "secrets and enrollment data"], st))

\* cmd.Run() whose error is only written to the debug log
RunLoggingError(argv, st) ==
    LET r  == Exec(argv, st.sys, admin)
        s1 == [st EXCEPT !.sys = r.sys, !.cmds = Append(@, [argv |-> argv, err |-> r.err])]
    IN IF r.err THEN [s1 EXCEPT !.logged = Append(@, "debug: process might not be running")]
       ELSE s1

\* returns [st, err]: err is the "unsupported platform" error
stopOsqueryd(os, st) ==
    LET s1 == Println([k |-> "Stopping", v |-> "osqueryd process"], st)
        killed(name, s) == [s EXCEPT !.results.processesKilled = Append(@, name)]
    IN CASE os \in {"darwin", "linux"} ->
              [st |-> killed("osqueryd", RunLoggingError(<<"pkill", "osqueryd">>, s1)),
               err |-> FALSE]
         [] os = "windows" ->
              [st |-> killed("osqueryd.exe",
                             RunLoggingError(<<"taskkill", "/F", "/IM", "osqueryd.exe">>, s1)),
               err |-> FALSE]
         [] OTHER -> [st |-> s1, err |-> TRUE]

ofPrintResults(st) ==
    LET r  == st.results
        s1 == Println([k |-> "Stopped processes", v |-> Len(r.processesKilled)],
                Println([k |-> "Cleaned", v |-> Len(r.filesRemoved)], st))
        s2 == IF Len(r.errors) > 0
              THEN Println([k |-> "errors occurred", v |-> Len(r.errors)], s1) ELSE s1
    IN IF Len(r.errors) = 0
       THEN Println([k |-> "OpenFrame cleanup completed successfully", v |-> 0], s2) ELSE s2

ofReturnValue(res) == IF Len(res.errors) > 0 THEN "error" ELSE "ok"

-----------------------------------------------------------------------------
(* The confirmation prompt: fmt.Scanln(&response) *)

RECURSIVE SkipSpaces(_)
SkipSpaces(cs) == IF cs # <<>> /\ Head(cs) = " " THEN SkipSpaces(Tail(cs)) ELSE cs

RECURSIVE Token(_)
Token(cs) == IF cs = <<>> \/ Head(cs) = " " THEN <<>> ELSE <<Head(cs)>> \o Token(Tail(cs))

\* Scanln stores the first space-delimited token of the line; nothing is stored
\* (response stays "") when standard input is closed or the line is empty
Scanln(in) == IF in.closed THEN <<>> ELSE Token(SkipSpaces(in.line))

\* the lines a user may type at the prompt
Lines == { <<"y">>, <<"Y">>, <<"n">>, <<>>, <<"y", "e", "s">>, <<" ", "y">> }

Stdin == {[closed |-> TRUE, line |-> <<>>]} \cup {[closed |-> FALSE, line |-> l] : l \in Lines}

Affirmative_DefaultYes(resp) == resp # <<"n">>

\* the negation of `response != "y" && response != "Y"`
Affirmative(resp) == resp = <<"y">> \/ resp = <<"Y">>

-----------------------------------------------------------------------------
(* The uuid subcommand: orbit/cmd/orbit/openframe_uuid.go                     *)
(*                                                                           *)
(* Standard output of osqueryd is a sequence of JSON tokens [t, v]; what     *)
(* json.Unmarshal makes of it is computed by the parser below.               *)

Punct(c) == [t |-> "punct", v |-> c]
Str(x)   == [t |-> "str", v |-> x]
Num(x)   == [t |-> "num", v |-> x]
Null     == [t |-> "null", v |-> "null"]
Junk(x)  == [t |-> "junk", v |-> x]

\* the values a column of the result row may hold
Values == {Str("4C4C4544-0051"), Str("564D8A2B-9F10"), Str(""), Num("42"), Null}

\* a row of the query result: the uuid column with some value, or another column
RowKinds == {[col |-> "uuid", val |-> x] : x \in Values}
            \cup {[col |-> "hostname", val |-> Str("host-1")]}

\* osqueryd --json prints the rows as an array of one-column objects
EncodeRow(r) == <<Punct("{"), Str(r.col), Punct(":"), r.val, Punct("}")>>

RECURSIVE EncodeRows(_)
EncodeRows(rows) ==
    IF rows = <<>> THEN <<>>
    ELSE EncodeRow(Head(rows))
         \o (IF Tail(rows) = <<>> THEN <<>> ELSE <<Punct(",")>>)
         \o EncodeRows(Tail(rows))

Encode(rows) == <<Punct("[")>> \o EncodeRows(rows) \o <<Punct("]")>>

\* outputs that are not an array of row objects
OddOutputs ==
    { <<>>,
      <<Junk("E1101 osqueryd initialize failed")>>,
      <<Null>>,
      <<Punct("["), Null, Punct("]")>>,
      <<Punct("{"), Str("uuid"), Punct(":"), Str("4C4C4544-0051"), Punct("}")>>,
      <<Punct("["), Punct("{"), Str("uuid"), Punct(":"), Str("4C4C4544-0051"), Punct("}")>>,
      <<Punct("["), Punct("{"), Str("hostname"), Punct(":"), Str("host-1"), Punct(","),
        Str("uuid"), Punct(":"), Str("4C4C4544-0051"), Punct("}"), Punct("]")>>,
      <<Punct("["), Punct("{"), Str("uuid"), Punct(":"), Str("4C4C4544-0051"), Punct("}"),
        Punct("]"), Junk("W0612 shutting down")>> }

At(ts, i) == IF i <= Len(ts) THEN ts[i] ELSE [t |-> "eof", v |-> ""]

NoObject == [k \in {} |-> Null]

Put(obj, k, val) == [x \in DOMAIN obj \cup {k} |-> IF x = k THEN val ELSE obj[x]]

\* members of an object after its "{": "key": scalar, separated by commas
RECURSIVE ParseMembers(_, _, _)
ParseMembers(ts, i, obj) ==
    IF At(ts, i).t = "str" /\ At(ts, i + 1) = Punct(":")
       /\ At(ts, i + 2).t \in {"str", "num", "null"}
    THEN LET o2 == Put(obj, At(ts, i).v, At(ts, i + 2))
         IN IF At(ts, i + 3) = Punct(",") THEN ParseMembers(ts, i + 4, o2)
            ELSE IF At(ts, i + 3) = Punct("}") THEN [ok |-> TRUE, obj |-> o2, pos |-> i + 4]
            ELSE [ok |-> FALSE, obj |-> obj, pos |-> i]
    ELSE [ok |-> FALSE, obj |-> obj, pos |-> i]

\* one element of []map[string]interface{}: an object, or null (a nil map)
ParseObject(ts, i) ==
    IF At(ts, i) = Null THEN [ok |-> TRUE, obj |-> NoObject, pos |-> i + 1]
    ELSE IF At(ts, i) = Punct("{")
    THEN IF At(ts, i + 1) = Punct("}") THEN [ok |-> TRUE, obj |-> NoObject, pos |-> i + 2]
         ELSE ParseMembers(ts, i + 1, NoObject)
    ELSE [ok |-> FALSE, obj |-> NoObject, pos |-> i]

RECURSIVE ParseElements(_, _, _)
ParseElements(ts, i, acc) ==
    LET e == ParseObject(ts, i)
    IN IF ~e.ok THEN [ok |-> FALSE, rows |-> acc, pos |-> i]
       ELSE IF At(ts, e.pos) = Punct(",") THEN ParseElements(ts, e.pos + 1, Append(acc, e.obj))
       ELSE IF At(ts, e.pos) = Punct("]")
       THEN [ok |-> TRUE, rows |-> Append(acc, e.obj), pos |-> e.pos + 1]
       ELSE [ok |-> FALSE, rows |-> acc, pos |-> i]

\* json.Unmarshal(stdout, &result) with result []map[string]interface{}:
\* [err, result]; the document must be one array (or null) and nothing else
Unmarshal(ts) ==
    LET r == IF At(ts, 1) = Null THEN [ok |-> TRUE, rows |-> <<>>, pos |-> 2]
             ELSE IF At(ts, 1) # Punct("[") THEN [ok |-> FALSE, rows |-> <<>>, pos |-> 1]
             ELSE IF At(ts, 2) = Punct("]") THEN [ok |-> TRUE, rows |-> <<>>, pos |-> 3]
             ELSE ParseElements(ts, 2, <<>>)
    IN IF r.ok /\ r.pos = Len(ts) + 1 THEN [err |-> FALSE, result |-> r.rows]
       ELSE [err |-> TRUE, result |-> <<>>]

\* the tail of getHostUUID: the row count and the type assertion on result[0]["uuid"]
ExtractUUID_AnyRowCount(result) ==
    IF Len(result) = 0 THEN [uuid |-> "", err |-> "expected 1 row from UUID query"]
    ELSE IF "uuid" \notin DOMAIN result[1] \/ result[1]["uuid"].t # "str"
    THEN [uuid |-> "", err |-> "UUID field not found or not a string"]
    ELSE [uuid |-> result[1]["uuid"].v, err |-> ""]

ExtractUUID(result) ==
    IF Len(result) # 1 THEN [uuid |-> "", err |-> "expected 1 row from UUID query"]
    ELSE IF "uuid" \notin DOMAIN result[1] \/ result[1]["uuid"].t # "str"
    THEN [uuid |-> "", err |-> "UUID field not found or not a string"]
    ELSE [uuid |-> result[1]["uuid"].v, err |-> ""]

\* cmd.Run() returns an error when osqueryd could not be started or exited non-zero
RunErr(p) == ~p.started \/ p.code # 0

getHostUUID_FailOnExitCode(p) ==
    IF ~p.mkdir THEN [uuid |-> "", err |-> "mkdir"]
    ELSE IF RunErr(p) THEN [uuid |-> "", err |-> "osqueryd failed"]
    ELSE IF Unmarshal(p.stdout).err THEN [uuid |-> "", err |-> "failed to parse osqueryd output"]
    ELSE ExtractUUID(Unmarshal(p.stdout).result)

\* getHostUUID on the outcome p of os.MkdirAll and of the osqueryd run
getHostUUID(p) ==
    IF ~p.mkdir THEN [uuid |-> "", err |-> "mkdir"]
    ELSE IF Unmarshal(p.stdout).err
    THEN [uuid |-> "",
          err |-> IF RunErr(p) THEN "osqueryd failed" ELSE "failed to parse osqueryd output"]
    ELSE ExtractUUID(Unmarshal(p.stdout).result)

NoProc == [mkdir |-> FALSE, started |-> FALSE, code |-> 0, src |-> "none", rows |-> <<>>,
           stdout |-> <<>>]

RECURSIVE SeqsUpTo(_, _)
SeqsUpTo(S, n) ==
    IF n = 0 THEN {<<>>}
    ELSE SeqsUpTo(S, n - 1)
         \cup {Append(q, x) : q \in {r \in SeqsUpTo(S, n - 1) : Len(r) = n - 1}, x \in S}

\* what may happen when getHostUUID creates the directory and runs osqueryd:
\* the directory cannot be created; osqueryd cannot be started; osqueryd runs,
\* prints rows (or something else) and exits with some code
ProcOutcomes ==
    {NoProc}
    \cup {[NoProc EXCEPT !.mkdir = TRUE]}
    \cup {[mkdir |-> TRUE, started |-> TRUE, code |-> c, src |-> "rows", rows |-> rs,
           stdout |-> Encode(rs)] : c \in {0, 1, 78}, rs \in SeqsUpTo(RowKinds, MaxRows)}
    \cup {[mkdir |-> TRUE, started |-> TRUE, code |-> c, src |-> "odd", rows |-> <<>>,
           stdout |-> o] : c \in {0, 1, 78}, o \in OddOutputs}

UuidIdle ==
    /\ upc = "start"
    /\ uflags = [json |-> FALSE]
    /\ ustat = "none"
    /\ proc = NoProc
    /\ scratch = FALSE
    /\ hostUUID = ""
    /\ uerr = ""
    /\ uout = <<>>

-----------------------------------------------------------------------------
(* The container entrypoint scripts                                           *)
(*                                                                           *)
(* An address is the sequence of its colon-separated fields: "mysql:3306"    *)
(* is <<"mysql", "3306">>, "mysql" is <<"mysql">>, "mysql:" is               *)
(* <<"mysql", "">> and the empty (or unset) variable is <<"">>.              *)

\* ${X%%:*}: X without its longest suffix that starts with a colon
BeforeFirstColon(addr) == addr[1]

\* ${X##*:}: X without its longest prefix that ends with a colon
AfterLastColon(addr) == addr[Len(addr)]

\* HOST="${ADDR%%:*}"; PORT="${ADDR##*:}"; [ "$PORT" = "$HOST" ] && PORT=default
ParseAddress(addr, defaultPort) ==
    [host |-> BeforeFirstColon(addr),
     port |-> IF AfterLastColon(addr) = BeforeFirstColon(addr) THEN defaultPort
              ELSE AfterLastColon(addr)]

\* echo $X | cut -d':' -f n: a line without the delimiter is printed whole
Cut(addr, n) == IF Len(addr) = 1 THEN addr[1] ELSE IF n <= Len(addr) THEN addr[n] ELSE ""

\* REDIS_HOST=$(... cut -f1); REDIS_PORT=$(... cut -f2)
CutAddress(addr) == [host |-> Cut(addr, 1), port |-> Cut(addr, 2)]

\* nc -z host port: a listener answers at mysql:3306 and at redis:6379 when the
\* service is up
Connects(host, port, mUp, rUp) ==
    \/ host = "mysql" /\ port = "3306" /\ mUp
    \/ host = "redis" /\ port = "6379" /\ rUp

\* max_attempts of wait_for_fleet
max_attempts == 30

Scripts == {"entrypoint", "validated", "second", "third"}

MysqlAddresses == {<<"mysql", "3306">>, <<"mysql">>, <<"">>}
RedisAddresses == {<<"redis", "6379">>, <<"redis">>, <<"redis", "">>, <<"">>}

NoShell == [MYSQL_HOST |-> "", MYSQL_PORT |-> "", REDIS_HOST |-> "", REDIS_PORT |-> ""]

\* the first statement of each script
FirstStep(script) ==
    CASE script = "entrypoint" -> "parse"
      [] script = "validated" -> "validate"
      [] script = "second" -> "prepare"
      [] script = "third" -> "parse"

BootCommon ==
    /\ sh = NoShell
    /\ probes = <<>>
    /\ prepared = "no"
    /\ server = "none"
    /\ serverCode = 0
    /\ attempts_ = 0
    /\ initRun = "no"
    /\ bexit = -1

BootIdle ==
    /\ bscript = "none" /\ bpc = "idle"
    /\ benv = [mysql |-> <<"">>, redis |-> <<"">>, autoInit |-> ""]
    /\ mysqlUp = FALSE /\ redisUp = FALSE /\ tokenFile = FALSE
    /\ BootCommon

BootInit ==
    /\ bscript \in Scripts
    /\ bpc = FirstStep(bscript)
    /\ benv \in [mysql : MysqlAddresses, redis : RedisAddresses, autoInit : {"true", ""}]
    /\ mysqlUp \in BOOLEAN
    /\ redisUp \in BOOLEAN
    /\ tokenFile \in BOOLEAN
    /\ BootCommon

-----------------------------------------------------------------------------
(* Initial machines *)

MkFs(dirs, files) == [p \in dirs \cup files |-> IF p \in dirs THEN "dir" ELSE "file"]

BinDir(R, k) == R \o [i \in 1..k |-> <<"bin">>]

\* the legacy backup at directory level k below the root
OldFile(R, k) == Join(BinDir(R, k - 1), <<"orbit", "old">>)

SystemLogDirs(os) ==
    CASE os \in {"darwin", "linux"} -> {VarLogOrbit}
      [] os = "windows" -> {WindowsLogs}
      [] OTHER -> {}

ServiceFiles(os) ==
    CASE os = "darwin" -> {LaunchdPlist, UsrLocalBinOrbit}
      [] os = "linux" -> {SystemdUnit, EtcDefaultOrbit, UsrLocalBinOrbit}
      [] OTHER -> {}

PlainDirs(R, os) ==
    {R, Join(R, <<"osquery_log">>), Join(R, <<"shell">>), Join(R, <<"osquery", "db">>)}
    \cup SystemLogDirs(os)

PlainFiles(R, os) ==
    {Join(R, <<"orbit", "stdout", "log">>), Join(Join(R, <<"shell">>), <<"keep">>),
     Join(R, <<"updates", "json">>), Join(R, OrbitNodeKeyFileName)}
    \cup ServiceFiles(os)

LegacyDirs(R) == {BinDir(R, k) : k \in 1..(MaxDepth - 1)}

LegacyFiles(R) ==
    {OldFile(R, k) : k \in 1..MaxDepth} \cup {Join(Join(R, <<"shell">>), <<"x", "old">>)}

Tree(t, R, os) ==
    CASE t = "empty"  -> MkFs({}, {})
      [] t = "plain"  -> MkFs(PlainDirs(R, os), PlainFiles(R, os))
      [] t = "legacy" -> MkFs(PlainDirs(R, os) \cup LegacyDirs(R),
                              PlainFiles(R, os) \cup LegacyFiles(R))
      [] t = "olddir" -> MkFs(PlainDirs(R, os) \cup LegacyDirs(R)
                                \cup {Join(R, <<"backup", "old">>)},
                              PlainFiles(R, os) \cup LegacyFiles(R)
                                \cup {Join(Join(R, <<"backup", "old">>), <<"data">>)})

\* the initial trees, each with the paths the operating system refuses to remove
Scenarios(R) ==
    { [t |-> "empty",  lk |-> {}],
      [t |-> "plain",  lk |-> {}],
      [t |-> "plain",  lk |-> {Join(R, <<"osquery_log">>), Join(R, <<"osquery", "db">>)}],
      [t |-> "legacy", lk |-> {}],
      [t |-> "legacy", lk |-> {Join(Join(R, <<"shell">>), <<"keep">>)}],
      [t |-> "olddir", lk |-> {}] }

Machines(os) == {[running |-> {}, registered |-> {}],
                 [running |-> Procs, registered |-> Registered(os)]}

\* --root-dir is given on some Linux machines only
RootFlags(os) == IF os = "linux" THEN {<<>>, TmpX} ELSE {<<>>}

CleanupInit ==
    /\ goos \in GOOSes
    /\ admin \in BOOLEAN
    /\ rootFlag \in RootFlags(goos)
    /\ \E sc \in Scenarios(RootDir(goos, rootFlag)) :
         /\ fs0 = Tree(sc.t, RootDir(goos, rootFlag), goos)
         /\ locked = sc.lk
    /\ sys0 \in Machines(goos)
    /\ fs = fs0
    /\ sys = sys0
    /\ variant = "none"
    /\ flags = [dryRun |-> FALSE]
    /\ cpc = "start"
    /\ results = NoResults
    /\ cachePaths = <<>>
    /\ walked = MkFs({}, {})
    /\ attempts = <<>>
    /\ cmds = <<>>
    /\ out = <<>>
    /\ response = <<>>
    /\ logged = <<>>
    /\ exit = "none"

\* a machine on which no cleanup is invoked
CleanupIdle ==
    /\ goos = "linux" /\ admin = TRUE /\ rootFlag = <<>>
    /\ fs0 = MkFs({}, {}) /\ locked = {} /\ sys0 = [running |-> {}, registered |-> {}]
    /\ fs = fs0 /\ sys = sys0
    /\ variant = "none" /\ flags = [dryRun |-> FALSE] /\ cpc = "idle"
    /\ results = NoResults /\ cachePaths = <<>> /\ walked = MkFs({}, {})
    /\ attempts = <<>> /\ cmds = <<>> /\ out = <<>> /\ response = <<>>
    /\ logged = <<>> /\ exit = "none"

Init == CleanupInit /\ UuidIdle /\ BootIdle

-----------------------------------------------------------------------------
(* Actions *)

Now == [fs |-> fs, sys |-> sys, results |-> results, attempts |-> attempts,
        cmds |-> cmds, out |-> out, logged |-> logged]

Commit(st) ==
    /\ fs' = st.fs
    /\ sys' = st.sys
    /\ results' = st.results
    /\ attempts' = st.attempts
    /\ cmds' = st.cmds
    /\ out' = st.out
    /\ logged' = st.logged

\* cleanupAction returns; `at` names the return statement: "refused", "help",
\* "cancelled", or "done" for the return that follows printResults
Return(value, at, st) == Commit(st) /\ exit' = value /\ cpc' = at

Goto(pc, st) == Commit(st) /\ exit' = exit /\ cpc' = pc

rootDir == RootDir(goos, rootFlag)

StdFlags == [all : BOOLEAN, logs : BOOLEAN, cache : BOOLEAN, secrets : BOOLEAN,
             registry : BOOLEAN, service : BOOLEAN, dryRun : BOOLEAN, force : BOOLEAN]

NothingSpecified(f) ==
    ~f.all /\ ~f.logs /\ ~f.cache /\ ~f.secrets /\ ~f.registry /\ ~f.service

\* cleanupAction up to the confirmation prompt
StdCleanupAction ==
    /\ cpc = "start"
    /\ \E f \in StdFlags :
         LET probed == IF goos = "windows"
                       THEN [Now EXCEPT !.cmds = Append(@, [argv |-> <<"net", "session">>,
                                                         err |-> ~admin])]
                       ELSE Now
         IN /\ variant' = "standard"
            /\ flags' = f
            /\ UNCHANGED <<frame, cachePaths, walked, response>>
            /\ IF ~hasAdminPrivileges(goos, admin) THEN Return("error", "refused", probed)
               ELSE IF NothingSpecified(f)
               THEN Return("ok", "help", Println([k |-> "help", v |-> "cleanup"], probed))
               ELSE IF ~f.force /\ ~f.dryRun
               THEN Goto("prompt", Println([k |-> "prompt", v |-> "Continue? [y/N]"], probed))
               ELSE Goto("stop", IF f.dryRun
                                 THEN Println([k |-> "DRY RUN", v |-> 0], probed)
                                 ELSE probed)

StdConfirm ==
    /\ cpc = "prompt"
    /\ \E in \in Stdin :
         /\ response' = Scanln(in)
         /\ IF ~Affirmative(Scanln(in))
            THEN Return("ok", "cancelled", Println([k |-> "Cleanup cancelled.", v |-> 0], Now))
            ELSE Goto("stop", Now)
    /\ UNCHANGED <<frame, variant, flags, cachePaths, walked>>

StdStopService ==
    /\ cpc = "stop"
    /\ IF flags.all \/ flags.service
       THEN LET r == stopOrbitService(goos, flags.dryRun, Now)
            IN Goto("logs", IF r.err
                            THEN [r.st EXCEPT !.logged = Append(@, "error: Failed to stop orbit service")]
                            ELSE r.st)
       ELSE Goto("logs", Now)
    /\ UNCHANGED <<frame, variant, flags, cachePaths, walked, response>>

StdCleanLogs ==
    /\ cpc = "logs"
    /\ Goto("cache", IF flags.all \/ flags.logs
                     THEN cleanLogFiles(rootDir, flags.dryRun, Now) ELSE Now)
    /\ UNCHANGED <<frame, variant, flags, cachePaths, walked, response>>

StdCleanCache ==
    /\ cpc = "cache"
    /\ IF flags.all \/ flags.cache
       THEN /\ cachePaths' = getCachePaths(rootDir, fs)
            /\ walked' = fs
            /\ Goto("secrets", cleanCacheFiles(rootDir, flags.dryRun, Now))
       ELSE /\ UNCHANGED <<cachePaths, walked>>
            /\ Goto("secrets", Now)
    /\ UNCHANGED <<frame, variant, flags, response>>

StdCleanSecrets ==
    /\ cpc = "secrets"
    /\ Goto("registry", IF flags.all \/ flags.secrets
                        THEN cleanSecretFiles(rootDir, flags.dryRun, Now) ELSE Now)
    /\ UNCHANGED <<frame, variant, flags, cachePaths, walked, response>>

StdCleanRegistry ==
    /\ cpc = "registry"
    /\ Goto("service", IF (flags.all \/ flags.registry) /\ goos = "windows"
                       THEN cleanWindowsRegistry(goos, flags.dryRun, Now) ELSE Now)
    /\ UNCHANGED <<frame, variant, flags, cachePaths, walked, response>>

StdCleanServiceFiles ==
    /\ cpc = "service"
    /\ Goto("print", IF flags.all \/ flags.service
                     THEN cleanServiceFiles(goos, flags.dryRun, Now) ELSE Now)
    /\ UNCHANGED <<frame, variant, flags, cachePaths, walked, response>>

StdFinish ==
    /\ cpc = "print"
    /\ Return(ReturnValue(results), "done", printResults(flags.dryRun, Now))
    /\ UNCHANGED <<frame, variant, flags, cachePaths, walked, response>>

OfFlags == [openframeMode : BOOLEAN, osqueryPath : {"", "/opt/openframe/osqueryd"}]

\* OpenFrame-mode cleanupAction up to the first helper
OfCleanupAction ==
    /\ cpc = "start"
    /\ \E f \in OfFlags :
         /\ variant' = "openframe"
         /\ flags' = f
         /\ IF ~f.openframeMode THEN Return("error", "refused", Now)
            ELSE Goto("of_stop", Println([k |-> "Starting", v |-> "OpenFrame cleanup"], Now))
    /\ UNCHANGED <<frame, cachePaths, walked, response>>

OfStopOsqueryd ==
    /\ cpc = "of_stop"
    /\ LET r == stopOsqueryd(goos, Now)
       IN Goto("of_logs", IF r.err
                          THEN [r.st EXCEPT !.logged = Append(@, "error: Failed to stop osqueryd")]
                          ELSE r.st)
    /\ UNCHANGED <<frame, variant, flags, cachePaths, walked, response>>

OfCleanLogs ==
    /\ cpc = "of_logs"
    /\ Goto("of_cache", ofCleanLogFiles(rootDir, Now))
    /\ UNCHANGED <<frame, variant, flags, cachePaths, walked, response>>

OfCleanCache ==
    /\ cpc = "of_cache"
    /\ cachePaths' = getCachePaths(rootDir, fs)
    /\ walked' = fs
    /\ Goto("of_secrets", ofCleanCacheFiles(rootDir, Now))
    /\ UNCHANGED <<frame, variant, flags, response>>

OfCleanSecrets ==
    /\ cpc = "of_secrets"
    /\ Goto("of_print", ofCleanSecretFiles(rootDir, Now))
    /\ UNCHANGED <<frame, variant, flags, cachePaths, walked, response>>

OfFinish ==
    /\ cpc = "of_print"
    /\ Return(ofReturnValue(results), "done", ofPrintResults(Now))
    /\ UNCHANGED <<frame, variant, flags, cachePaths, walked, response>>

Next ==
    \/ StdCleanupAction
    \/ StdConfirm
    \/ StdStopService
    \/ StdCleanLogs
    \/ StdCleanCache
    \/ StdCleanSecrets
    \/ StdCleanRegistry
    \/ StdCleanServiceFiles
    \/ StdFinish
    \/ OfCleanupAction
    \/ OfStopOsqueryd
    \/ OfCleanLogs
    \/ OfCleanCache
    \/ OfCleanSecrets
    \/ OfFinish

Spec == Init /\ [][Next]_vars

-----------------------------------------------------------------------------
(* Properties of the cleanup subcommand *)

\* no subprocess other than the `net session` privilege probe has been executed
NoCommandRun == \A i \in 1..Len(cmds) : cmds[i].argv = <<"net", "session">>

NothingChanged == fs = fs0 /\ sys = sys0 /\ NoCommandRun

DryRun == variant = "standard" /\ flags.dryRun

\* the i-th removePathIfExists call found the path and os.RemoveAll left it there
Failed(i) == ~DryRun /\ attempts[i].before /\ attempts[i].after

\* the i-th removePathIfExists call found the path and os.RemoveAll removed it
Removed(i) == ~DryRun /\ attempts[i].before /\ ~attempts[i].after

\* C1: in every cleanup variant an invocation without elevated privileges is
\* refused with an error before any category is processed: no command is run,
\* no path is removed and the results accumulator stays empty.
C1_UnprivilegedIsRefused ==
    (variant # "none" /\ ~admin) =>
        /\ NothingChanged
        /\ results = NoResults /\ attempts = <<>>
        /\ cpc \in {"refused", "help", "cancelled", "done"} =>
              cpc = "refused" /\ exit = "error"

\* C2 as stated: with --dry-run, for every combination of the category flags and
\* every initial filesystem, nothing is removed, no command is executed, and the
\* exit status is success.
C2_DryRunSucceedsAlways ==
    DryRun => /\ NothingChanged
              /\ cpc \in {"refused", "help", "cancelled", "done"} => exit = "ok"

\* C2 amended: with --dry-run nothing is removed and no command is executed for
\* every combination of the category flags; the exit status is success when the
\* command runs with elevated privileges, and the privilege error otherwise.
C2_DryRunNeverMutates ==
    DryRun => /\ NothingChanged
              /\ cpc \in {"refused", "help", "cancelled", "done"} =>
                    exit = (IF admin THEN "ok" ELSE "error")
              /\ cpc = "refused" <=> ~admin

C2_Witness ==
    /\ DryRun /\ flags.all /\ admin /\ cpc = "done" /\ exit = "ok"
    /\ Len(results.filesRemoved) > 3
    /\ sys0.running = Procs

\* C3: in the standard command without --force and --dry-run, no command is
\* executed and no path is removed unless the response read at the prompt is
\* "y" or "Y"; any other response (empty and unreadable included) cancels the
\* run with no state change.
C3_ConfirmationGate ==
    (variant = "standard" /\ ~flags.force /\ ~flags.dryRun
        /\ response # <<"y">> /\ response # <<"Y">>) =>
        /\ NothingChanged
        /\ results = NoResults /\ attempts = <<>>
        /\ cpc \in {"prompt", "refused", "help", "cancelled"}
        /\ cpc = "cancelled" => exit = "ok"

C3_Witness ==
    /\ variant = "standard" /\ ~flags.force /\ ~flags.dryRun /\ flags.all
    /\ response = <<"y", "e", "s">> /\ cpc = "cancelled"
    /\ fs0 # MkFs({}, {}) /\ sys0.running = Procs

\* the paths cleanupAction hands to removePathIfExists, category by category
ExpectedAttempts ==
    IF variant = "openframe"
    THEN getLogPaths(goos, rootDir) \o cachePaths \o getSecretPaths(rootDir)
    ELSE (IF flags.all \/ flags.logs THEN getLogPaths(goos, rootDir) ELSE <<>>)
         \o (IF flags.all \/ flags.cache THEN cachePaths ELSE <<>>)
         \o (IF flags.all \/ flags.secrets THEN getSecretPaths(rootDir) ELSE <<>>)
         \o (IF flags.all \/ flags.service
             THEN CASE goos = "darwin" -> <<LaunchdPlist, UsrLocalBinOrbit>>
                    [] goos = "linux" -> <<SystemdUnit, EtcDefaultOrbit, UsrLocalBinOrbit>>
                    [] OTHER -> <<>>
             ELSE <<>>)

\* C6: continue-on-error cleanup (both revisions): a failed removal never stops
\* the run; every path of every selected category is attempted, in order; at
\* the end the number of recorded errors is the number of paths whose removal
\* failed, and each path whose removal succeeded is recorded exactly once in
\* filesRemoved.
C6_ContinueOnError ==
    cpc = "done" =>
        /\ [i \in 1..Len(attempts) |-> attempts[i].path] = ExpectedAttempts
        /\ Len(results.errors) = Cardinality({i \in 1..Len(attempts) : Failed(i)})
        /\ \A i \in 1..Len(attempts) :
              Removed(i) => Occurrences(results.filesRemoved, attempts[i].path) = 1
        /\ ~DryRun => Len(results.filesRemoved)
                        = Cardinality({i \in 1..Len(attempts) : Removed(i)})

C6_Witness ==
    /\ cpc = "done"
    /\ \E i, j \in 1..Len(attempts) : i < j /\ Failed(i) /\ Removed(j)
    /\ Len(results.errors) = 2

\* C7: a run that reaches category processing exits with failure if any error
\* was recorded and with success otherwise; the failure of a stop command (or
\* of the whole stop step) is not recorded as an error and leaves the exit
\* status alone.
C7_ExitStatus ==
    cpc = "done" =>
        /\ exit = "error" <=> Len(results.errors) > 0
        /\ (\A i \in 1..Len(attempts) : ~Failed(i)) => exit = "ok" /\ results.errors = <<>>

C7_Witness ==
    /\ cpc = "done" /\ exit = "ok"
    /\ \E i \in 1..Len(cmds) : cmds[i].err /\ Kills(cmds[i].argv) # {}

\* the .old files (not directories) below the root of a filesystem
OldFiles(R, f) == {p \in DOMAIN f : IsPrefix(R, p) /\ f[p] = "file" /\ HasSuffix(p, "old")}

\* C8: getCachePaths returns exactly the three fixed entries plus exactly the
\* N files below the root whose names end in ".old": no directory, no other
\* path, none missing, none twice.
C8_ExactlyTheOldFiles ==
    cachePaths # <<>> =>
        /\ SubSeq(cachePaths, 1, 3) = FixedCachePaths(rootDir)
        /\ Range(SubSeq(cachePaths, 4, Len(cachePaths))) = OldFiles(rootDir, walked)
        /\ Len(cachePaths) = 3 + Cardinality(OldFiles(rootDir, walked))

\* C9: the OpenFrame-mode cleanup stops osqueryd only and leaves the orbit
\* service and fleet-desktop (and their registrations) alone; the standard
\* cleanup never issues a command that stops osqueryd.
C9_SeparationOfConcerns ==
    /\ variant = "openframe" =>
          /\ \A i \in 1..Len(cmds) : /\ Kills(cmds[i].argv) = {"osqueryd"}
                                     /\ Unregisters(cmds[i].argv) = {}
          /\ sys.running \cap {"orbit", "fleet-desktop"}
                = sys0.running \cap {"orbit", "fleet-desktop"}
          /\ sys.registered = sys0.registered
    /\ variant = "standard" =>
          /\ \A i \in 1..Len(cmds) : "osqueryd" \notin Kills(cmds[i].argv)
          /\ "osqueryd" \in sys0.running => "osqueryd" \in sys.running

C9_Witness ==
    /\ variant = "openframe" /\ cpc = "done"
    /\ sys0.running = Procs
    /\ sys.running = {"orbit", "fleet-desktop"}

\* the run state at `results := &cleanupResults{}` of a run on the initial machine
Start == [fs |-> fs0, sys |-> sys0, results |-> NoResults, attempts |-> <<>>,
          cmds |-> <<>>, out |-> <<>>, logged |-> <<>>]

\* cleanupAction from the stop step to printResults, with flags f and dry-run
\* setting dry, as one function of the run state
cleanupBody(f, dry, st) ==
    LET r  == stopOrbitService(goos, dry, st)
        s1 == IF f.all \/ f.service
              THEN (IF r.err
                    THEN [r.st EXCEPT !.logged = Append(@, "error: Failed to stop orbit service")]
                    ELSE r.st)
              ELSE st
        s2 == IF f.all \/ f.logs THEN cleanLogFiles(rootDir, dry, s1) ELSE s1
        s3 == IF f.all \/ f.cache THEN cleanCacheFiles(rootDir, dry, s2) ELSE s2
        s4 == IF f.all \/ f.secrets THEN cleanSecretFiles(rootDir, dry, s3) ELSE s3
        s5 == IF (f.all \/ f.registry) /\ goos = "windows"
              THEN cleanWindowsRegistry(goos, dry, s4) ELSE s4
        s6 == IF f.all \/ f.service THEN cleanServiceFiles(goos, dry, s5) ELSE s5
    IN printResults(dry, s6)

\* what the same invocation does without --dry-run
RealRun == cleanupBody(flags, FALSE, Start)

\* a printed line describes the command argv
Describes(line, argv) ==
    \/ line.k = "Would run" /\ line.v = argv
    \/ line.k = "Would run PowerShell" /\ argv = <<"powershell", "-Command", line.v>>
    \/ /\ line.k = "Would run"
       /\ line.v = <<"Stop-Service", "-Name", "'Fleet osquery'">>
       /\ argv = <<"net", "stop", "Fleet osquery">>
    \/ /\ line.k = "Would run"
       /\ line.v = <<"Stop-Process", "-Name", "fleet-desktop">>
       /\ argv = <<"taskkill", "/F", "/IM", "fleet-desktop.exe">>

\* C15: in dry-run mode there is a "Would remove" line for each path a real
\* run of the same invocation would remove, and a "Would run" line naming
\* each external command a real run would execute.
C15_DryRunDescribesEveryAction ==
    (DryRun /\ cpc = "done") =>
        LET real == RealRun
        IN /\ \A i \in 1..Len(real.attempts) :
                 (real.attempts[i].before /\ ~real.attempts[i].after) =>
                     \E j \in 1..Len(out) : /\ out[j].k = "Would remove"
                                            /\ out[j].v = real.attempts[i].path
           /\ \A i \in 1..Len(real.cmds) :
                 \E j \in 1..Len(out) : Describes(out[j], real.cmds[i].argv)

\* C16: for the same initial filesystem and flags, when no removal fails, the
\* number of files/directories a dry run reports it would clean equals the
\* number a real run reports as cleaned.
C16_DryRunCountMatchesRealRun ==
    (DryRun /\ cpc = "done") =>
        LET real == RealRun
        IN real.results.errors = <<>> =>
             \A j \in 1..Len(out) : \A i \in 1..Len(real.out) :
                 (out[j].k = "Would clean" /\ real.out[i].k = "Cleaned") =>
                     out[j].v = real.out[i].v

-----------------------------------------------------------------------------
(* Actions of the uuid subcommand *)

UuidFlags == [json : BOOLEAN, openframeMode : BOOLEAN,
              osqueryPath : {"", "/opt/openframe/osqueryd"}, rootDir : {"", "/tmp/x"}]

\* os.Executable() and os.Stat(osquerydPath)
StatResults == {"ok", "notexist", "denied", "noexe"}

\* uuidAction up to the call of getHostUUID
UuidAction ==
    /\ upc = "start"
    /\ \E f \in UuidFlags, st \in StatResults :
         /\ uflags' = f
         /\ ustat' = st
         /\ uerr' = IF ~f.openframeMode THEN "This command only works in OpenFrame mode"
                    ELSE IF f.rootDir = "" /\ st = "noexe" THEN "failed to get orbit executable"
                    ELSE IF f.osqueryPath = ""
                    THEN "openframe-osquery-path must be specified"
                    ELSE IF st = "notexist" THEN "custom openframe osqueryd binary not found"
                    ELSE IF st = "denied" THEN "failed to check custom openframe osqueryd binary"
                    ELSE ""
         /\ upc' = IF uerr' = "" THEN "query" ELSE "done"
    /\ UNCHANGED <<envVars, cleanVars, bootVars, proc, scratch, hostUUID, uout>>

\* hostUUID, err := getHostUUID(osquerydPath, tmpDBPath)
UuidQuery ==
    /\ upc = "query"
    /\ \E p \in ProcOutcomes :
         /\ proc' = p
         /\ scratch' = p.started
         /\ hostUUID' = getHostUUID(p).uuid
         /\ uerr' = IF getHostUUID(p).err # "" THEN "failed to get host UUID" ELSE ""
    /\ upc' = "print"
    /\ UNCHANGED <<envVars, cleanVars, bootVars, uflags, ustat, uout>>

\* the rest of uuidAction: the error return or the printed UUID, then the
\* deferred os.RemoveAll(tmpDBPath)
UuidPrint ==
    /\ upc = "print"
    /\ uout' = IF uerr # "" THEN uout
               ELSE IF uflags.json THEN Append(uout, [k |-> "json", uuid |-> hostUUID])
               ELSE Append(uout, [k |-> "plain", uuid |-> hostUUID])
    /\ scratch' = FALSE
    /\ upc' = "done"
    /\ UNCHANGED <<envVars, cleanVars, bootVars, uflags, ustat, proc, hostUUID, uerr>>

UuidNext == UuidAction \/ UuidQuery \/ UuidPrint

UuidInit == CleanupIdle /\ UuidIdle /\ BootIdle

SpecUUID == UuidInit /\ [][UuidNext]_vars

-----------------------------------------------------------------------------
(* Properties of the uuid subcommand *)

\* osqueryd printed an array of exactly one row whose uuid column is a string
OneStringRow ==
    /\ proc.started /\ proc.src = "rows" /\ Len(proc.rows) = 1
    /\ proc.rows[1].col = "uuid" /\ proc.rows[1].val.t = "str"

\* osqueryd printed an array of rows that is not one row with a string uuid
NotOneStringRow ==
    /\ proc.started /\ proc.src = "rows"
    /\ \/ Len(proc.rows) # 1
       \/ proc.rows[1].col # "uuid"
       \/ proc.rows[1].val.t # "str"

\* C4: whenever osqueryd's output is a JSON array of exactly one object with a
\* string uuid field, getHostUUID returns that string unchanged and no error,
\* whether the exit code is zero or not.
C4_OneRowIsReturnedVerbatim ==
    (upc \in {"print", "done"} /\ OneStringRow) =>
        /\ hostUUID = proc.rows[1].val.v
        /\ uerr = ""
        /\ upc = "done" => uout = <<[k |-> IF uflags.json THEN "json" ELSE "plain",
                                     uuid |-> proc.rows[1].val.v]>>

C4_Witness ==
    /\ upc = "done" /\ OneStringRow /\ proc.code = 78
    /\ uout = <<[k |-> "plain", uuid |-> "4C4C4544-0051"]>>

\* C5: when the row count is not 1, or the single row has no uuid field or one
\* that is not a string, the uuid flow returns an error and prints no UUID,
\* neither as plain text nor as JSON.
C5_OtherOutputsAreErrors ==
    (upc \in {"print", "done"} /\ NotOneStringRow) =>
        /\ uerr # ""
        /\ hostUUID = ""
        /\ uout = <<>>

C5_Witness ==
    /\ upc = "done" /\ NotOneStringRow /\ Len(proc.rows) = 2 /\ proc.code = 0
    /\ proc.rows[1].val.t = "str" /\ proc.rows[1].col = "uuid"
    /\ uerr # "" /\ uout = <<>> /\ uflags.json

-----------------------------------------------------------------------------
(* Actions of the entrypoint scripts *)

bootFrame == <<envVars, cleanVars, uuidVars>>

Exits(code) == bpc' = "exited" /\ bexit' = code

\* the failed probes of host:port so far (each is followed by a sleep)
FailedProbes(host, port) ==
    Cardinality({i \in 1..Len(probes) :
                    probes[i].host = host /\ probes[i].port = port /\ ~probes[i].ok})

\* validated revision: the two [ -z ... ] checks
BValidate ==
    /\ bpc = "validate"
    /\ IF benv.mysql = <<"">> \/ benv.redis = <<"">> THEN Exits(1)
       ELSE bpc' = "parse" /\ bexit' = bexit
    /\ UNCHANGED <<bootFrame, bscript, benv, mysqlUp, redisUp, sh, probes, prepared, server,
                   serverCode, attempts_, initRun, tokenFile>>

\* the assignments of MYSQL_HOST, MYSQL_PORT, REDIS_HOST, REDIS_PORT
BParse ==
    /\ bpc = "parse"
    /\ IF bscript = "third"
       THEN /\ sh' = [sh EXCEPT !.REDIS_HOST = CutAddress(benv.redis).host,
                                !.REDIS_PORT = CutAddress(benv.redis).port]
            /\ bpc' = "wait_redis"
       ELSE /\ sh' = [MYSQL_HOST |-> ParseAddress(benv.mysql, "3306").host,
                      MYSQL_PORT |-> ParseAddress(benv.mysql, "3306").port,
                      REDIS_HOST |-> ParseAddress(benv.redis, "6379").host,
                      REDIS_PORT |-> ParseAddress(benv.redis, "6379").port]
            /\ bpc' = "wait_mysql"
    /\ UNCHANGED <<bootFrame, bscript, benv, mysqlUp, redisUp, probes, prepared, server,
                   serverCode, attempts_, initRun, tokenFile, bexit>>

\* one turn of `while ! nc -z "$MYSQL_HOST" "$MYSQL_PORT"; do sleep 2; done`
BProbeMysql ==
    /\ bpc = "wait_mysql"
    /\ LET ok == Connects(sh.MYSQL_HOST, sh.MYSQL_PORT, mysqlUp, redisUp)
       IN /\ ok \/ FailedProbes(sh.MYSQL_HOST, sh.MYSQL_PORT) < MaxProbeFails
          /\ probes' = Append(probes, [host |-> sh.MYSQL_HOST, port |-> sh.MYSQL_PORT,
                                       ok |-> ok])
          /\ bpc' = IF ok THEN "wait_redis" ELSE "wait_mysql"
    /\ UNCHANGED <<bootFrame, bscript, benv, mysqlUp, redisUp, sh, prepared, server,
                   serverCode, attempts_, initRun, tokenFile, bexit>>

\* one turn of the Redis loop (`while ! nc -z`, `until nc -z` in the third script)
BProbeRedis ==
    /\ bpc = "wait_redis"
    /\ LET ok == Connects(sh.REDIS_HOST, sh.REDIS_PORT, mysqlUp, redisUp)
       IN /\ ok \/ FailedProbes(sh.REDIS_HOST, sh.REDIS_PORT) < MaxProbeFails
          /\ probes' = Append(probes, [host |-> sh.REDIS_HOST, port |-> sh.REDIS_PORT,
                                       ok |-> ok])
          /\ bpc' = IF ~ok THEN "wait_redis"
                    ELSE IF bscript = "third" THEN "serve" ELSE "prepare"
    /\ UNCHANGED <<bootFrame, bscript, benv, mysqlUp, redisUp, sh, prepared, server,
                   serverCode, attempts_, initRun, tokenFile, bexit>>

\* fleet prepare db --no-prompt: it needs the database; under `set -e` its
\* failure ends the script, except in the second script, where the status of
\* the pipeline is the status of tee
BPrepare ==
    /\ bpc = "prepare"
    /\ \E r \in {"ok", "failed"} :
         /\ r = "ok" => mysqlUp
         /\ prepared' = r
         /\ IF r = "failed" /\ bscript # "second" THEN Exits(1)
            ELSE bpc' = "serve" /\ bexit' = bexit
    /\ UNCHANGED <<bootFrame, bscript, benv, mysqlUp, redisUp, sh, probes, server,
                   serverCode, attempts_, initRun, tokenFile>>

\* fleet serve: exec'ed by entrypoint.sh, a background job in the later scripts;
\* the second script ends after launching it
BServe ==
    /\ bpc = "serve"
    /\ server' = "running"
    /\ CASE bscript = "entrypoint" -> bpc' = "exec" /\ bexit' = bexit
         [] bscript = "second" -> Exits(0)
         [] OTHER -> bpc' = "health" /\ bexit' = bexit
    /\ UNCHANGED <<bootFrame, bscript, benv, mysqlUp, redisUp, sh, probes, prepared,
                   serverCode, attempts_, initRun, tokenFile>>

KeepPolling_OneMore(a) == a <= max_attempts

\* while [ $attempts -lt $max_attempts ]
KeepPolling(a) == a < max_attempts

\* the curl probe of wait_for_fleet, as recorded in the history of probes
HealthProbe(ok) == [host |-> "localhost", port |-> "FLEET_SERVER_PORT", ok |-> ok]

\* one turn of the loop of wait_for_fleet: the curl probe succeeds only if the
\* server is up; after a failure attempts is incremented
BHealthProbe ==
    /\ bpc = "health"
    /\ KeepPolling(attempts_)
    /\ \E ok \in BOOLEAN :
         /\ ok => server = "running"
         /\ probes' = Append(probes, HealthProbe(ok))
         /\ IF ok THEN bpc' = "init" /\ attempts_' = attempts_
            ELSE bpc' = "health" /\ attempts_' = attempts_ + 1
    /\ UNCHANGED <<bootFrame, bscript, benv, mysqlUp, redisUp, sh, prepared, server,
                   serverCode, initRun, tokenFile, bexit>>

\* wait_for_fleet returns 1 when the loop ends; under `set -e` the script exits
BHealthGiveUp ==
    /\ bpc = "health"
    /\ ~KeepPolling(attempts_)
    /\ Exits(1)
    /\ UNCHANGED <<bootFrame, bscript, benv, mysqlUp, redisUp, sh, probes, prepared, server,
                   serverCode, attempts_, initRun, tokenFile>>

\* the exit status of init-fleet.sh
InitStatus(r) == IF r = "ok" THEN 0 ELSE 1

OrTrue_Propagate(status) == status

\* the status of the list `cmd || true`
OrTrue(status) == 0

\* if [ "$FLEET_SETUP_AUTO_INIT" = "true" ] && [ ! -f api_token.txt ]; then
\*     sh /usr/share/init-fleet.sh || true
\*     a status other than 0 of the list would end the script under `set -e`
BInit ==
    /\ bpc = "init"
    /\ IF benv.autoInit = "true" /\ ~tokenFile
       THEN \E r \in {"ok", "failed"} :
              /\ initRun' = r
              /\ tokenFile' = (r = "ok")
              /\ IF OrTrue(InitStatus(r)) # 0 THEN Exits(OrTrue(InitStatus(r)))
                 ELSE bpc' = "wait" /\ bexit' = bexit
       ELSE /\ UNCHANGED <<initRun, tokenFile, bexit>>
            /\ bpc' = "wait"
    /\ UNCHANGED <<bootFrame, bscript, benv, mysqlUp, redisUp, sh, probes, prepared, server,
                   serverCode, attempts_>>

\* wait $FLEET_PID (or the end of the exec'ed server): the script ends with the
\* status of the server
BWait ==
    /\ bpc \in {"wait", "exec"}
    /\ server = "exited"
    /\ Exits(serverCode)
    /\ UNCHANGED <<bootFrame, bscript, benv, mysqlUp, redisUp, sh, probes, prepared, server,
                   serverCode, attempts_, initRun, tokenFile>>

\* the server process ends
ServerExits ==
    /\ server = "running"
    /\ server' = "exited"
    /\ serverCode' \in {0, 1}
    /\ UNCHANGED <<bootFrame, bscript, bpc, benv, mysqlUp, redisUp, sh, probes, prepared,
                   attempts_, initRun, tokenFile, bexit>>

\* a dependency starts to accept connections
DependencyUp ==
    /\ bpc # "exited"
    /\ \/ ~mysqlUp /\ mysqlUp' = TRUE /\ redisUp' = redisUp
       \/ ~redisUp /\ redisUp' = TRUE /\ mysqlUp' = mysqlUp
    /\ UNCHANGED <<bootFrame, bscript, bpc, benv, sh, probes, prepared, server, serverCode,
                   attempts_, initRun, tokenFile, bexit>>

BootNext ==
    \/ BValidate
    \/ BParse
    \/ BProbeMysql
    \/ BProbeRedis
    \/ BPrepare
    \/ BServe
    \/ BHealthProbe
    \/ BHealthGiveUp
    \/ BInit
    \/ BWait
    \/ ServerExits
    \/ DependencyUp

BootStart == CleanupIdle /\ UuidIdle /\ BootInit

SpecBoot == BootStart /\ [][BootNext]_vars

\* the statements of the script itself: the shell always runs the next one
BScript ==
    \/ BValidate \/ BParse \/ BProbeMysql \/ BProbeRedis \/ BPrepare \/ BServe
    \/ BHealthProbe \/ BHealthGiveUp \/ BInit \/ BWait

SpecBootFair == BootStart /\ [][BootNext]_vars /\ WF_vars(BScript)

-----------------------------------------------------------------------------
(* Properties of the entrypoint scripts *)

\* a probe of the MySQL address, and one of the Redis address, has succeeded
MysqlProbed == \E i \in 1..Len(probes) :
                  probes[i].ok /\ probes[i].host = "mysql" /\ probes[i].port = "3306"
RedisProbed == \E i \in 1..Len(probes) :
                  probes[i].ok /\ probes[i].host = "redis" /\ probes[i].port = "6379"

\* C10: in every entrypoint variant `fleet prepare db` is invoked only after a
\* TCP probe of the MySQL address and one of the Redis address have succeeded;
\* while a dependency stays unreachable neither the schema preparation nor the
\* server is started.
C10_PrepareOnlyAfterBothProbes ==
    (prepared # "no" \/ server # "none") => MysqlProbed /\ RedisProbed

\* the nc probes and the curl probes recorded so far
TcpProbes == {i \in 1..Len(probes) : probes[i].host # "localhost"}
HealthProbes == {i \in 1..Len(probes) : probes[i].host = "localhost"}

\* FLEET_MYSQL_ADDRESS or FLEET_REDIS_ADDRESS is unset or empty
AddressMissing == benv.mysql = <<"">> \/ benv.redis = <<"">>

\* C11: in every entrypoint variant, when the MySQL or the Redis address is
\* absent or empty the script exits non-zero with a configuration error
\* before the first TCP probe is attempted.
C11_MissingAddressIsFatal ==
    (bscript # "none" /\ AddressMissing) =>
        /\ TcpProbes = {}
        /\ bpc = "exited" => bexit # 0

\* the host and port the documentation gives for an address: the port after
\* the colon, the default port when it is omitted or empty
Documented(addr, defaultPort) ==
    [host |-> addr[1],
     port |-> IF Len(addr) >= 2 /\ addr[Len(addr)] # "" THEN addr[Len(addr)]
              ELSE defaultPort]

\* C12: for every address host:port the probe uses that host and port, for
\* host and host: it uses the host and the default port (3306, 6379); the
\* port used is never empty and never the host name.
C12_ProbesUseDocumentedAddress ==
    (bscript # "none" /\ benv.mysql[1] # "" /\ benv.redis[1] # "") =>
        \A i \in TcpProbes :
            /\ [host |-> probes[i].host, port |-> probes[i].port]
                  \in {Documented(benv.mysql, "3306"), Documented(benv.redis, "6379")}
            /\ probes[i].port # ""
            /\ probes[i].port # probes[i].host

\* a health probe has succeeded; all max_attempts probes were made and failed
Healthy == \E i \in HealthProbes : probes[i].ok
Exhausted == Cardinality(HealthProbes) = max_attempts /\ ~Healthy

C13_Safety ==
    /\ Cardinality(HealthProbes) <= max_attempts
    /\ \A i \in HealthProbes : probes[i].ok => i = Len(probes)
    /\ (server # "none" /\ bscript \in {"validated", "third"} /\ ~Healthy) =>
          /\ initRun = "no"
          /\ bpc \in {"health", "exited"}
          /\ bpc = "exited" => bexit # 0 /\ Exhausted

\* C13: after the server is launched in the background wait_for_fleet makes at
\* most 30 health probes and stops at the first that succeeds; when none
\* succeeds the script terminates with a non-zero status, never runs the
\* initialization and never waits on the server.
C13_BoundedHealthPoll ==
    []C13_Safety /\ (Exhausted ~> (bpc = "exited" /\ bexit # 0))

C13_Witness ==
    /\ Exhausted /\ bpc = "exited" /\ bexit = 1
    /\ server = "running" /\ benv.autoInit = "true" /\ ~tokenFile

C14_Safety ==
    Healthy =>
        /\ bpc \in {"init", "wait", "exited"}
        /\ bpc = "exited" => server = "exited" /\ bexit = serverCode

\* C14: once the health poll has succeeded the script always reaches the wait
\* on the server and exits only with the server's exit status, whether the
\* initialization was skipped, succeeded or failed.
C14_ReachesWaitAndPropagates ==
    []C14_Safety /\ (Healthy ~> bpc \in {"wait", "exited"})

C14_Witness ==
    /\ Healthy /\ initRun = "failed" /\ bpc = "exited"
    /\ server = "exited" /\ serverCode = 1 /\ bexit = 1

====
